---- MODULE Spec2Model ----
(***************************************************************************)
(* Model of patent/patent1/capture_diagrams.py: a batch run that lists the *)
(* *.html files of DIAGRAM_DIR, renders each with headless Chrome into     *)
(* IMAGE_DIR/<stem>.jpg, reads the image size with sips and prints a       *)
(* success tally.                                                          *)
(*                                                                         *)
(* File names are sequences of character codes, directories are sets of    *)
(* file names.  The three external programs (renderer, transcoder,         *)
(* metadata probe) are the environment: each invocation ends in one of a   *)
(* small set of outcomes.                                                  *)
(***************************************************************************)
EXTENDS Integers, Sequences, FiniteSets, TLC

\* ---------------------------------------------------------------- bounds
\* At most MaxFiles entries in the source directory.
MaxFiles == 2
\* At most MaxPrior files already in the output directory when a run starts.
MaxPrior == 1

\* ------------------------------------------------------------- file names
\* ".html", ".jpg", ".png", ".txt" as character codes ('.' = 46, '-' = 45).
HTML == <<46, 104, 116, 109, 108>>
JPG == <<46, 106, 112, 103>>
PNG == <<46, 112, 110, 103>>
TXT == <<46, 116, 120, 116>>

\* The names a source directory is drawn from: a.html, a-.html, b.html, a.txt.
\* "a-.html" sorts before "a.html" ('-' < '.') although "a" < "a-".
DirNames ==
    { <<97>> \o HTML, <<97, 45>> \o HTML, <<98>> \o HTML, <<97>> \o TXT }

\* str.rfind('.') on a name, 1-based; 0 when there is no dot.
RECURSIVE rfindDot(_, _)
rfindDot(name, i) ==
    IF i = 0 THEN 0
    ELSE IF name[i] = 46 THEN i
    ELSE rfindDot(name, i - 1)

\* PurePath.suffix: the last dot and what follows, unless the dot is the
\* first or the last character of the name.
suffix(name) ==
    LET i == rfindDot(name, Len(name))
    IN  IF 1 < i /\ i < Len(name) THEN SubSeq(name, i, Len(name)) ELSE <<>>

\* PurePath.stem: the name without its suffix.
stem(name) ==
    LET i == rfindDot(name, Len(name))
    IN  IF 1 < i /\ i < Len(name) THEN SubSeq(name, 1, i - 1) ELSE name

\* PurePath.with_suffix.
with_suffix(name, suf) == stem(name) \o suf

\* output_jpg = IMAGE_DIR / f"{filename}.jpg" with filename = html_file.stem
OutputJpg(html_file) == stem(html_file) \o JPG

\* fnmatch of a name against "*.html".
MatchesHtml(name) ==
    /\ Len(name) >= Len(HTML)
    /\ SubSeq(name, Len(name) - Len(HTML) + 1, Len(name)) = HTML

\* DIAGRAM_DIR.glob("*.html") raises PermissionError when the directory
\* cannot be stat'ed (no search permission on the way to it).
globRaises(dirState) == dirState = "noaccess"

\* DIAGRAM_DIR.glob("*.html"): the matching entries; nothing at all (and no
\* error) when the directory is missing or is there but cannot be listed.
glob(dirState, files) ==
    IF dirState = "ok" THEN {n \in files : MatchesHtml(n)} ELSE {}

\* The orders in which a directory scan may yield a set of entries.
Orderings(S) ==
    {s \in [1..Cardinality(S) -> S] : \A i, j \in 1..Cardinality(S) : i # j => s[i] # s[j]}

\* Path.__lt__ within one directory: code-point lexicographic order of names.
RECURSIVE LexLess(_, _)
LexLess(a, b) ==
    IF a = <<>> THEN b # <<>>
    ELSE IF b = <<>> THEN FALSE
    ELSE IF a[1] # b[1] THEN a[1] < b[1]
    ELSE LexLess(Tail(a), Tail(b))

RECURSIVE Insert(_, _)
Insert(x, s) ==
    IF s = <<>> THEN <<x>>
    ELSE IF LexLess(x, s[1]) THEN <<x>> \o s
    ELSE <<s[1]>> \o Insert(x, Tail(s))

RECURSIVE SortFrom(_, _)
SortFrom(s, acc) ==
    IF s = <<>> THEN acc ELSE SortFrom(Tail(s), Insert(s[1], acc))

\* A scan order left as the directory gave it.
unsorted(s) == s

\* sorted(...) of the globbed paths.
sorted(s) == SortFrom(s, <<>>)

\* ------------------------------------------------------ external programs
\* subprocess.run(cmd, capture_output=True, timeout=10) on the renderer:
\* exc is the exception raised ("timeout" = TimeoutExpired, "oserror" = the
\* binary cannot be started), rc the exit status (-1: none), writes the
\* files that are there when the call returns ("jpg" is the --screenshot
\* path, "png" the same path with the suffix .png), late the files a process
\* it left behind writes at some later time.
RenderOutcomes ==
    { [exc |-> "timeout", rc |-> -1, writes |-> {}, late |-> {}],
      [exc |-> "timeout", rc |-> -1, writes |-> {"jpg"}, late |-> {}],
      [exc |-> "oserror", rc |-> -1, writes |-> {}, late |-> {}],
      [exc |-> "none", rc |-> 0, writes |-> {"jpg"}, late |-> {}],
      [exc |-> "none", rc |-> 1, writes |-> {"jpg"}, late |-> {}],
      [exc |-> "none", rc |-> 0, writes |-> {}, late |-> {}],
      [exc |-> "none", rc |-> 1, writes |-> {}, late |-> {}],
      [exc |-> "none", rc |-> 0, writes |-> {"png"}, late |-> {}],
      [exc |-> "none", rc |-> 0, writes |-> {}, late |-> {"jpg"}] }

\* No renderer invocation is in progress.
NoRender == [exc |-> "unused", rc |-> -1, writes |-> {}, late |-> {}]

\* subprocess.run on sips as transcoder (no timeout): wrote says whether it
\* left a file at --out.
TranscodeOutcomes ==
    { [exc |-> "oserror", rc |-> -1, wrote |-> FALSE],
      [exc |-> "none", rc |-> 0, wrote |-> TRUE],
      [exc |-> "none", rc |-> 1, wrote |-> FALSE] }

\* Texts sips -g may print.  A text is a sequence of lines, a line the
\* sequence of its ':'-separated parts, a part the sequence of its words.
StdoutGood ==
    << << <<"/images/x.jpg">> >>,
       << <<"pixelHeight">>, <<"12000">> >>,
       << <<"pixelWidth">>, <<"3000">> >> >>
StdoutNoWidth ==
    << << <<"/images/x.jpg">> >>,
       << <<"pixelHeight">>, <<"12000">> >> >>
StdoutMalformed ==
    << << <<"pixelHeight">>, <<"12000">> >>,
       << <<"pixelWidth">>, <<"30">>, <<"00">> >> >>
StdoutEmpty == <<>>

\* subprocess.run on sips as metadata probe (no timeout, text=True): "oserror"
\* when it cannot be started, "decode" (UnicodeDecodeError) when it ran and
\* printed bytes that are not text.
ProbeOutcomes ==
    { [exc |-> "oserror", rc |-> -1, stdout |-> StdoutEmpty],
      [exc |-> "decode", rc |-> 0, stdout |-> StdoutEmpty],
      [exc |-> "none", rc |-> 0, stdout |-> StdoutGood],
      [exc |-> "none", rc |-> 1, stdout |-> StdoutEmpty],
      [exc |-> "none", rc |-> 0, stdout |-> StdoutNoWidth],
      [exc |-> "none", rc |-> 0, stdout |-> StdoutMalformed] }

\* The probe was not invoked for the item.
NoProbe == [exc |-> "unused", rc |-> -1, stdout |-> StdoutEmpty]

\* --------------------------------------------------------- convert_diagram
\* The files of the output directory after the renderer ran: what it wrote
\* replaces what was there under the same name.
RenderWrites(files, output_jpg, o) ==
    files \cup {output_jpg : x \in o.writes \cap {"jpg"}}
          \cup {with_suffix(output_jpg, PNG) : x \in o.writes \cap {"png"}}

\* The files the renderer's leftover process has still to write.
RenderLate(output_jpg, o) == {output_jpg : x \in o.late \cap {"jpg"}}

\* output_jpg.exists()
exists(files, path) == path \in files

\* An except clause that names OSError only.
CaughtOSErrorOnly(exc) == exc = "oserror"

\* An except clause that names TimeoutExpired only.
CaughtTimeoutOnly(exc) == exc = "timeout"

\* "except Exception": TimeoutExpired, OSError and UnicodeDecodeError are
\* all caught.
Caught(exc) == exc \in {"timeout", "oserror", "decode"}

\* "if not output_jpg.suffix == '.jpg'": when a .png sibling exists, run the
\* transcoder on it and unlink it (an exception skips the unlink).
TranscodeStep(files, output_jpg, t) ==
    LET png_file == with_suffix(output_jpg, PNG)
    IN  IF suffix(output_jpg) # JPG /\ exists(files, png_file)
        THEN [invoked |-> TRUE, exc |-> t.exc,
              files |-> IF t.exc = "none"
                        THEN (files \cup {output_jpg : x \in {t.wrote} \cap {TRUE}})
                                 \ {png_file}
                        ELSE files]
        ELSE [invoked |-> FALSE, exc |-> "none", files |-> files]

\* result.stdout.strip().split('\n'): an empty text is one empty line.
splitLines(stdout) == IF stdout = <<>> THEN << << <<>> >> >> ELSE stdout

\* 'pixelHeight' in line or 'pixelWidth' in line
Mentions(line, word) ==
    \E i \in DOMAIN line : \E j \in DOMAIN line[i] : line[i][j] = word

\* A length test that accepts any line with a colon.
AtLeastTwoParts(parts) == Len(parts) >= 2

\* len(parts) == 2
TwoParts(parts) == Len(parts) = 2

\* The loop that fills dims from the lines of the probe's output.
RECURSIVE ParseFrom(_, _, _)
ParseFrom(lines, i, dims) ==
    IF i > Len(lines) THEN dims
    ELSE LET parts == lines[i]
             hit == /\ Mentions(parts, "pixelHeight") \/ Mentions(parts, "pixelWidth")
                    /\ TwoParts(parts)
         IN  ParseFrom(lines, i + 1,
                       IF hit THEN (parts[1] :> parts[2]) @@ dims ELSE dims)

ParseDims(stdout) == ParseFrom(splitLines(stdout), 1, [k \in {} |-> <<>>])

\* dims.get(key, '?')
get(dims, key) == IF <<key>> \in DOMAIN dims THEN dims[<<key>>] ELSE <<"?">>

\* A tally that counts every item.
TallyAll(count, ok) == count + 1

\* "if convert_diagram(html_file): success += 1"
Tally(count, ok) == IF ok THEN count + 1 ELSE count

\* ------------------------------------------------------------------ state
VARIABLES
    srcDir,      \* DIAGRAM_DIR: "ok", "missing", "unreadable" (it cannot be
                 \* listed) or "noaccess" (it cannot be stat'ed)
    srcFiles,    \* the entries of DIAGRAM_DIR
    imgDir,      \* IMAGE_DIR: "dir", "absent", "noparent" (its parent is
                 \* missing) or "file" (the path is a regular file)
    outFiles,    \* the files of IMAGE_DIR
    pending,     \* files a renderer's leftover process has still to write
    pc,          \* "import", "main", "loop", "render", "sleep", "probe",
                 \* "done", "crashed"
    html_files,  \* main's sorted list
    idx,         \* position of the for loop in html_files
    success,     \* main's tally
    out,         \* the lines printed so far
    calls,       \* start and end of every external invocation, in order
    results,     \* the value convert_diagram returned for each item so far
    cur,         \* outcome of the renderer for the item being converted
    plan,        \* for each item of the first run, what the tools did
    run,         \* 1 in the first run of the script, 2 in the second
    prev         \* output files and tally at the end of the previous run,
                 \* and whether all its files had landed by then

vars ==
    <<srcDir, srcFiles, imgDir, outFiles, pending, pc, html_files, idx,
      success, out, calls, results, cur, plan, run, prev>>

env == <<srcDir, srcFiles>>

\* The names convert_diagram may touch for the entries of a directory.
OutNames(S) ==
    UNION {{OutputJpg(n), with_suffix(OutputJpg(n), PNG)} : n \in {m \in S : MatchesHtml(m)}}

NoPrev == [files |-> {}, success |-> 0, total |-> 0, quiet |-> TRUE]

Init ==
    /\ srcDir \in {"ok", "missing", "unreadable", "noaccess"}
    /\ srcFiles \in {S \in SUBSET DirNames :
                        /\ Cardinality(S) <= MaxFiles
                        /\ srcDir = "missing" => S = {}}
    /\ imgDir \in {"dir", "absent", "noparent", "file"}
    /\ outFiles \in {P \in SUBSET OutNames(srcFiles) :
                        /\ Cardinality(P) <= MaxPrior
                        /\ imgDir # "dir" => P = {}}
    /\ pending = {}
    /\ pc = "import"
    /\ html_files = <<>>
    /\ idx = 1
    /\ success = 0
    /\ out = <<>>
    /\ calls = <<>>
    /\ results = <<>>
    /\ cur = NoRender
    /\ plan = <<>>
    /\ run = 1
    /\ prev = NoPrev

\* ---------------------------------------------------------------- actions
\* IMAGE_DIR.mkdir(exist_ok=True) at import: FileNotFoundError when the
\* parent is missing, FileExistsError when the path is a regular file.
MkDir ==
    /\ pc = "import"
    /\ IF imgDir \in {"noparent", "file"}
       THEN pc' = "crashed" /\ imgDir' = imgDir
       ELSE pc' = "main" /\ imgDir' = "dir"
    /\ UNCHANGED <<env, outFiles, pending, html_files, idx, success, out,
                   calls, results, cur, plan, run, prev>>

\* main up to the for loop: the banner and an empty line, sorted(glob), the
\* count followed by an empty line.  A glob that raises ends main after the
\* first two lines.
Enumerate ==
    /\ pc = "main"
    /\ IF globRaises(srcDir)
       THEN /\ out' = out \o << <<"Banner">>, <<"Blank">> >>
            /\ pc' = "crashed"
            /\ UNCHANGED <<html_files, success, idx, results>>
       ELSE /\ \E order \in Orderings(glob(srcDir, srcFiles)) :
                  /\ html_files' = sorted(order)
                  /\ out' = out \o << <<"Banner">>, <<"Blank">>,
                                      <<"Found", Len(html_files')>>, <<"Blank">> >>
            /\ success' = 0
            /\ idx' = 1
            /\ results' = <<>>
            /\ pc' = "loop"
    /\ UNCHANGED <<env, imgDir, outFiles, pending, calls, cur, plan, run, prev>>

\* The next item of the loop enters convert_diagram: the progress line,
\* then subprocess.run blocks on the renderer.
StartConvert ==
    /\ pc = "loop"
    /\ idx <= Len(html_files)
    /\ out' = Append(out, <<"Converting", stem(html_files[idx])>>)
    /\ calls' = Append(calls, <<"renderer", "start", stem(html_files[idx])>>)
    /\ pc' = "render"
    /\ UNCHANGED <<env, imgDir, outFiles, pending, html_files, idx, success,
                   results, cur, plan, run, prev>>

\* convert_diagram returns ok after printing line; main adds to the tally
\* and moves to the next item.
Return(ok, line, r, p) ==
    /\ out' = Append(out, line)
    /\ results' = Append(results, ok)
    /\ success' = Tally(success, ok)
    /\ idx' = idx + 1
    /\ pc' = "loop"
    /\ cur' = NoRender
    /\ plan' = IF run = 1 THEN Append(plan, [r |-> r, p |-> p]) ELSE plan

\* An exception inside the try block: the handler prints and returns False;
\* an exception it does not catch leaves main.
Raise(exc, r, p) ==
    IF Caught(exc)
    THEN Return(FALSE, <<"Error", stem(html_files[idx]), exc>>, r, p)
    ELSE /\ pc' = "crashed"
         /\ cur' = r
         /\ UNCHANGED <<out, results, success, idx, plan>>

\* The renderer's subprocess.run ends (line 40): its files are there, what
\* a leftover process writes is still to come; a timeout or a failure to
\* start goes to the handler, otherwise the code sleeps.
RendererDone ==
    /\ pc = "render"
    /\ \E o \in RenderOutcomes :
        LET name == stem(html_files[idx])
            output_jpg == OutputJpg(html_files[idx])
        IN  /\ IF run = 1 THEN TRUE ELSE o = plan[idx].r
            /\ outFiles' = RenderWrites(outFiles, output_jpg, o)
            /\ pending' = pending \cup RenderLate(output_jpg, o)
            /\ calls' = Append(calls, <<"renderer", "end", name>>)
            /\ IF o.exc # "none"
               THEN Raise(o.exc, o, NoProbe)
               ELSE /\ pc' = "sleep"
                    /\ cur' = o
                    /\ UNCHANGED <<out, results, success, idx, plan>>
    /\ UNCHANGED <<env, imgDir, html_files, run, prev>>

\* A file of a renderer's leftover process lands in IMAGE_DIR.
LateWrite ==
    /\ \E f \in pending :
           /\ outFiles' = outFiles \cup {f}
           /\ pending' = pending \ {f}
    /\ UNCHANGED <<env, imgDir, pc, html_files, idx, success, out, calls,
                   results, cur, plan, run, prev>>

\* time.sleep(1) is over: the existence test and the transcoding block, up
\* to the call of the probe.
AfterSleep ==
    /\ pc = "sleep"
    /\ \E t \in TranscodeOutcomes :
        LET name == stem(html_files[idx])
            output_jpg == OutputJpg(html_files[idx])
            ts == TranscodeStep(outFiles, output_jpg, t)
            transcoded == calls \o << <<"transcoder", "start", name>>,
                                      <<"transcoder", "end", name>> >>
        IN  IF ~exists(outFiles, output_jpg)
            THEN /\ UNCHANGED <<outFiles, calls>>
                 /\ Return(FALSE, <<"Failed", name>>, cur, NoProbe)
            ELSE IF ts.exc # "none"
            THEN /\ outFiles' = ts.files
                 /\ calls' = transcoded
                 /\ Raise(ts.exc, cur, NoProbe)
            ELSE /\ outFiles' = ts.files
                 /\ calls' = Append(IF ts.invoked THEN transcoded ELSE calls,
                                    <<"probe", "start", name>>)
                 /\ pc' = "probe"
                 /\ UNCHANGED <<out, results, success, idx, plan, cur>>
    /\ UNCHANGED <<env, imgDir, pending, html_files, run, prev>>

\* The probe's subprocess.run ends; the dimensions are parsed and printed.
ProbeDone ==
    /\ pc = "probe"
    /\ \E p \in ProbeOutcomes :
        LET name == stem(html_files[idx])
            dims == ParseDims(p.stdout)
        IN  /\ IF run = 1 THEN TRUE
               ELSE IF plan[idx].p = NoProbe THEN TRUE ELSE p = plan[idx].p
            /\ calls' = Append(calls, <<"probe", "end", name>>)
            /\ IF p.exc # "none"
               THEN Raise(p.exc, cur, p)
               ELSE Return(TRUE, <<"Created", name, get(dims, "pixelWidth"),
                                   get(dims, "pixelHeight")>>, cur, p)
    /\ UNCHANGED <<env, imgDir, outFiles, pending, html_files, run, prev>>

\* The loop is over: the summary lines.
Summary ==
    /\ pc = "loop"
    /\ idx > Len(html_files)
    /\ out' = out \o << <<"Blank">>, <<"Summary", success, Len(html_files)>>,
                        <<"Saved">> >>
    /\ pc' = "done"
    /\ UNCHANGED <<env, imgDir, outFiles, pending, html_files, idx, success,
                   calls, results, cur, plan, run, prev>>

\* The script is started a second time on the same directories; in that run
\* every tool does for each item what it did in the first.
Rerun ==
    /\ pc = "done"
    /\ run = 1
    /\ run' = run + 1
    /\ prev' = [files |-> outFiles, success |-> success, total |-> Len(html_files),
                quiet |-> pending = {}]
    /\ pc' = "import"
    /\ html_files' = <<>>
    /\ idx' = 1
    /\ success' = 0
    /\ out' = <<>>
    /\ calls' = <<>>
    /\ results' = <<>>
    /\ UNCHANGED <<env, imgDir, outFiles, pending, cur, plan>>

Next ==
    \/ MkDir
    \/ Enumerate
    \/ StartConvert
    \/ RendererDone
    \/ LateWrite
    \/ AfterSleep
    \/ ProbeDone
    \/ Summary

NextRerun == Next \/ Rerun

\* One run of the script.
Spec == Init /\ [][Next]_vars

\* The steps whose wait the code bounds: its own statements and the renderer
\* (timeout=10).  At most one of them is enabled at a time.
Bounded ==
    \/ MkDir
    \/ Enumerate
    \/ StartConvert
    \/ RendererDone
    \/ AfterSleep
    \/ Summary

\* One run in which the code's own steps are eventually taken: the code is
\* sequential and the renderer is bounded by its timeout.  Nothing bounds the
\* probe (its subprocess.run has no timeout) or a leftover writer, so neither
\* is forced to finish.
FairSpec == Spec /\ WF_vars(Bounded)

\* Two runs in a row, the tools behaving in the second as in the first.
SpecRerun == Init /\ [][NextRerun]_vars

\* ------------------------------------------------------------- properties
N == Len(html_files)

\* Number of items convert_diagram has returned for.
Finished == Len(results)

\* Number of positions of s whose element passes Test.
CountIn(s, Test(_)) == Cardinality({i \in DOMAIN s : Test(s[i])})

IsConverting(line) == line[1] = "Converting"
IsResultLine(line) == line[1] \in {"Created", "Failed", "Error"}
IsSummary(line) == line[1] = "Summary"
IsTrue(b) == b = TRUE
IsRendererStart(e) == e[1] = "renderer" /\ e[2] = "start"

\* The line convert_diagram printed when it returned for item i: after the
\* four opening lines every item has its progress line and this one.
ResultLine(i) == out[4 + 2 * i]

\* The renderer, resp. the probe, raised for item i.
RendererRaised(i) == plan[i].r.exc # "none"
ProbeInvoked(i) == plan[i].p # NoProbe
ProbeRaised(i) == ProbeInvoked(i) /\ plan[i].p.exc # "none"

\* A crash is that of mkdir at import, before main prints, or that of the
\* enumeration, after the banner: never one inside the loop.
CrashesBeforeLoop ==
    pc = "crashed" =>
        /\ calls = <<>>
        /\ results = <<>>
        /\ \/ imgDir \in {"noparent", "file"} /\ out = <<>>
           \/ srcDir = "noaccess" /\ out = << <<"Banner">>, <<"Blank">> >>

\* C1 (safety part): an item whose renderer timed out has the result False,
\* a timeout never ends the run, and a run that ends has converted every item.
C1_Safe ==
    /\ \A i \in 1..Finished : plan[i].r.exc = "timeout" => results[i] = FALSE
    /\ pc = "crashed" => cur.exc # "timeout"
    /\ pc = "done" =>
           /\ Finished = N
           /\ \A i \in 1..N :
                \E k \in DOMAIN calls :
                    calls[k] = <<"renderer", "start", stem(html_files[i])>>

\* An item's renderer has timed out and the loop is about to go on.
AfterTimeout ==
    pc = "loop" /\ \E i \in 1..Finished : plan[i].r.exc = "timeout"

\* C1 as claimed: a renderer timeout fails its own item only, every later
\* item is still passed to convert_diagram, and the run always reaches the
\* summary.
C1_TimeoutIsolated ==
    /\ []C1_Safe
    /\ AfterTimeout ~> (pc = "done")

\* C1 amended: a renderer timeout fails its own item only and never ends the
\* run; the run reaches the summary if no probe invocation blocks for ever.
C1_TimeoutIsolatedIfProbesReturn ==
    /\ []C1_Safe
    /\ []<>(pc # "probe") => (AfterTimeout ~> (pc = "done"))

C1_Witness ==
    /\ pc = "done"
    /\ \E i \in 1..Finished :
           /\ i < Finished
           /\ plan[i].r.exc = "timeout"
           /\ results[i + 1] = TRUE

\* C2: one progress line per item started (N at the end), one result line
\* per item returned, and the summary is successes/N with successes the
\* number of True results; an empty input set gives 0/0 with no tool invoked
\* and no crash.
C2_ProgressAndSummary ==
    /\ CountIn(out, IsConverting)
         = Finished + (IF pc \in {"render", "sleep", "probe"} THEN 1 ELSE 0)
    /\ CountIn(out, IsResultLine) = Finished
    /\ srcDir = "ok" /\ pc \notin {"import", "main", "crashed"} =>
           N = Cardinality({n \in srcFiles : MatchesHtml(n)})
    /\ pc = "done" =>
           /\ CountIn(out, IsConverting) = N
           /\ CountIn(out, IsSummary) = 1
           /\ out[Len(out) - 1] = <<"Summary", CountIn(results, IsTrue), N>>
           /\ 0 <= success /\ success <= N
           /\ success = CountIn(results, IsTrue)
           /\ N = 0 => out[Len(out) - 1] = <<"Summary", 0, 0>> /\ calls = <<>>
    /\ pc # "done" => CountIn(out, IsSummary) = 0
    /\ CrashesBeforeLoop

C2_Witness ==
    /\ pc = "done"
    /\ N = 2
    /\ success = 1
    /\ results = <<FALSE, TRUE>>

\* C3 as claimed: when convert_diagram has just returned True for an item,
\* <stem>.jpg is in the output directory and <stem>.png is not.
C3_SuccessLeavesOnlyJpg ==
    pc \in {"loop", "done"} /\ Finished >= 1 /\ results[Finished] = TRUE =>
        /\ OutputJpg(html_files[Finished]) \in outFiles
        /\ with_suffix(OutputJpg(html_files[Finished]), PNG) \notin outFiles

\* C4 as claimed: an exception or a non-zero exit status of the renderer or
\* of the probe makes the item a failure, and the run goes on.
C4_AnyToolFailureFailsItem ==
    /\ \A i \in 1..Finished :
           (\/ RendererRaised(i) \/ plan[i].r.rc # 0
            \/ ProbeRaised(i) \/ (ProbeInvoked(i) /\ plan[i].p.rc # 0))
           => results[i] = FALSE
    /\ CrashesBeforeLoop

\* C4 amended: an exception raised by the renderer or by the probe makes the
\* item a failure and the run goes on; exit statuses are not looked at: an
\* item is a success exactly when no invocation raised and the output file
\* was there after rendering (the probe was reached).
C4_ExceptionsFailItem ==
    /\ \A i \in 1..Finished :
           /\ RendererRaised(i) \/ ProbeRaised(i) =>
                  /\ results[i] = FALSE
                  /\ ResultLine(i)[1] = "Error"
           /\ results[i] = TRUE <=>
                  ~RendererRaised(i) /\ ProbeInvoked(i) /\ ~ProbeRaised(i)
           /\ ~RendererRaised(i) /\ ~ProbeInvoked(i) => ResultLine(i)[1] = "Failed"
    /\ CrashesBeforeLoop
    /\ pc = "done" => Finished = N

C4_Witness ==
    /\ pc = "done"
    /\ \E i, j \in 1..Finished :
           /\ i < j
           /\ plan[i].p.exc = "oserror" /\ results[i] = FALSE
           /\ plan[j].r.rc = 1 /\ plan[j].p.rc = 1 /\ results[j] = TRUE

\* C5 as claimed: an item whose renderer left no output file in this run
\* (at once or later) is a failure, whatever the output directory held before.
C5_NoRenderOutputIsFailure ==
    \A i \in 1..Finished :
        "jpg" \notin plan[i].r.writes \cup plan[i].r.late => results[i] = FALSE

\* C6 as claimed: once the output file is there after rendering, nothing the
\* probe does turns the item into a failure.
C6_ProbeNeverFailsItem ==
    \A i \in 1..Finished : ProbeInvoked(i) => results[i] = TRUE

\* C6 amended: a probe whose call returned, whatever its exit status, leaves
\* the item a success, with '?' for each dimension its output has no
\* well-formed field for; a probe whose call raised (it could not be started,
\* or its output was not text) fails the item.
C6_ProbeDegrades ==
    \A i \in 1..Finished : ProbeInvoked(i) =>
        LET p == plan[i].p
            name == stem(html_files[i])
        IN  /\ p.exc # "none" =>
                   results[i] = FALSE /\ ResultLine(i) = <<"Error", name, p.exc>>
            /\ p.exc = "none" => results[i] = TRUE
            /\ p.exc = "none" /\ p.stdout = StdoutGood =>
                   ResultLine(i) = <<"Created", name, <<"3000">>, <<"12000">> >>
            /\ p.exc = "none" /\ p.stdout \in {StdoutNoWidth, StdoutMalformed} =>
                   ResultLine(i) = <<"Created", name, <<"?">>, <<"12000">> >>
            /\ p.exc = "none" /\ p.stdout = StdoutEmpty =>
                   ResultLine(i) = <<"Created", name, <<"?">>, <<"?">> >>

C6_Witness ==
    /\ pc = "done"
    /\ \E i, j \in 1..Finished :
           /\ plan[i].p.exc = "none" /\ plan[i].p.stdout = StdoutMalformed
           /\ results[i] = TRUE
           /\ plan[j].p.exc = "decode"
           /\ results[j] = FALSE

\* C7 as claimed: when the renderer left a .png and not the .jpg, the
\* transcoder is invoked once for the item and the .png is gone afterwards;
\* when it left the .jpg, the transcoder is not invoked.
C7_TranscodesIntermediate ==
    pc \in {"loop", "done"} /\ Finished >= 1 =>
        LET r == plan[Finished].r
            name == stem(html_files[Finished])
            IsTranscode(e) == e = <<"transcoder", "start", name>>
        IN  /\ r.exc = "none" /\ r.writes = {"png"} =>
                   /\ CountIn(calls, IsTranscode) = 1
                   /\ with_suffix(OutputJpg(html_files[Finished]), PNG) \notin outFiles
            /\ r.exc = "none" /\ r.writes = {"jpg"} =>
                   CountIn(calls, IsTranscode) = 0

\* C8 as claimed: with the source directory missing or unreadable main
\* aborts in the enumeration, with no conversion and no summary, and nothing
\* else ends main before the summary.
C8_EnumerationAborts ==
    /\ srcDir # "ok" /\ pc \notin {"import", "main"} =>
           /\ pc = "crashed"
           /\ calls = <<>>
           /\ CountIn(out, IsSummary) = 0
    /\ pc = "crashed" /\ imgDir = "dir" => srcDir # "ok"

\* C9 as claimed: the second run, with the tools behaving as in the first,
\* ends with the output files and the successes/total the first run ended
\* with (both taken once every file of the run has landed).
C9_RerunIdempotent ==
    run > 1 /\ pc = "done" /\ prev.quiet /\ pending = {} =>
        /\ outFiles = prev.files
        /\ success = prev.success
        /\ N = prev.total

\* C10: html_files is in ascending order of file name, the renderer is
\* started once per item and in that order, and each start is directly
\* followed by the end of the same invocation before anything else starts.
C10_SortedSequentialOnce ==
    /\ \A i, j \in 1..N : i < j => LexLess(html_files[i], html_files[j])
    /\ \A i, j \in 1..N :
           /\ html_files[i] = <<97, 45>> \o HTML
           /\ html_files[j] = <<97>> \o HTML
           => i < j
    /\ LET started == Finished + (IF pc \in {"render", "sleep", "probe"} THEN 1 ELSE 0)
       IN  /\ CountIn(calls, IsRendererStart) = started
           /\ \A i \in 1..started :
                \E k \in DOMAIN calls :
                    /\ calls[k] = <<"renderer", "start", stem(html_files[i])>>
                    /\ CountIn(SubSeq(calls, 1, k), IsRendererStart) = i
                    /\ k = Len(calls)
                         \/ calls[k + 1] = <<"renderer", "end", stem(html_files[i])>>
    /\ pc = "render" <=>
           (calls # <<>> /\ calls[Len(calls)][1] = "renderer"
                         /\ calls[Len(calls)][2] = "start")
    /\ pc = "done" => CountIn(calls, IsRendererStart) = N

C10_Witness ==
    /\ pc = "done"
    /\ html_files = << <<97, 45>> \o HTML, <<97>> \o HTML >>
    /\ plan[1].r.exc = "timeout"
    /\ plan[2].r.exc = "oserror"
    /\ Len(calls) = 4
====
